---------------------------- MODULE Spec2Model ----------------------------
(***************************************************************************)
(* stund: the daemon's per-client session state machine (src/src/daemon.rs *)
(* enum Client), the child supervisor (enum ChildMonitor), the tunnel      *)
(* registry (State.children), and the client's open workflow               *)
(* (src/protocol/src/client.rs enum OpenWorkflow) with its terminator      *)
(* acceptor (FinishCommunicationState).                                    *)
(*                                                                         *)
(* One action is one call of a poll_* function of the source: the futures  *)
(* it polls are inputs, resolved from the frames in flight or drawn from   *)
(* the outcomes the I/O can produce.                                       *)
(***************************************************************************)
EXTENDS Naturals, Integers, Sequences, FiniteSets, TLC

\* ------------------------------------------------------------- bounds
\* supervisors (successful open setups) the daemon may start
MaxSup == 2
\* chunks one PTY yields while a session proxies it
MaxPty == 2
\* frames the hand-driven peer may send
MaxRaw == 3
\* length of the byte streams fed to the terminator acceptor on its own
MaxLen == 4

\* ------------------------------------------------------------ constants
NL == 10
DOT == 46
Bytes == {NL, DOT, 97}

Hosts == {"h1", "h2"}
\* c1 drives OpenWorkflow; c2 is a peer that writes frames by hand
Clients == {"c1", "c2"}
Workflow == "c1"
RawPeer == "c2"
Sups == 1..MaxSup
\* FATAL_SIGNALS, one that a process can handle and the one it cannot
Signals == {"SIGTERM", "SIGKILL"}
\* daemon processes started by the same user; the sessions, supervisors and
\* signal tasks of the model are those of the first
Daemons == {"d1", "d2", "d3"}
Serving == "d1"

VARIABLES
    daemonUp,   \* the daemon process is alive (Core::run has not unwound)
    children,   \* State.children: host -> supervisor whose tx_kill the Tunnel holds, 0 = no entry
    sess,       \* enum Client, one per accepted connection
    mon,        \* enum ChildMonitor, one per spawned supervisor
    c2d,        \* client -> daemon frames written and not yet read
    d2c,        \* daemon -> client frames written and not yet read
    c2dEof,     \* the client's write half is closed
    cli,        \* enum OpenWorkflow, one per client
    userLeft,   \* bytes the user will still type
    userOut,    \* bytes the user-output sink has accepted
    rawLeft,    \* frames (or a close) each hand-driven peer may still send
    ptyLeft,    \* chunks the PTYs will still yield
    sigTask,    \* the task forwarding each fatal signal to the exit channel
    rx_exit,    \* items in the exit channel
    start,      \* how far each daemon process has come through State::new and serve
    sock_path,  \* what is at the socket path: nothing, a stale file, or the socket a daemon bound
    accB, accFed, accSt, accStart   \* the acceptor run on its own

vars == << daemonUp, children, sess, mon, c2d, d2c, c2dEof, cli,
           userLeft, userOut, rawLeft, ptyLeft, sigTask, rx_exit,
           start, sock_path, accB, accFed, accSt, accStart >>

sigvars == << sigTask, rx_exit >>
startvars == << start, sock_path >>
sysvars == << daemonUp, children, sess, mon, c2d, d2c, c2dEof, cli,
              userLeft, userOut, rawLeft, ptyLeft, sigvars, startvars >>
accvars == << accB, accFed, accSt, accStart >>

\* ------------------------------------------------------------- messages
CMsg(t, h, d) == [t |-> t, host |-> h, data |-> d]
Open(h) == CMsg("Open", h, <<>>)
UserData(d) == CMsg("UserData", "-", d)
EndOfUserData == CMsg("EndOfUserData", "-", <<>>)
Goodbye == CMsg("Goodbye", "-", <<>>)
Exit == CMsg("Exit", "-", <<>>)

SMsg(t, d, x) == [t |-> t, data |-> d, text |-> x]
Ok == SMsg("Ok", <<>>, "")
SshData(d) == SMsg("SshData", d, "")
TunnelAlreadyOpen == SMsg("TunnelAlreadyOpen", <<>>, "")
Error(x) == SMsg("Error", <<>>, x)

\* --------------------------------------------------- terminator acceptor
transition_SawFirstEnterAccepts(st, byte) ==
    CASE st = "NoLeads" -> IF byte = NL THEN "SawFirstEnter" ELSE "NoLeads"
      [] st = "SawFirstEnter" ->
            IF byte = DOT THEN "SawPeriod"
            ELSE IF byte = NL THEN "SawSecondEnter" ELSE "NoLeads"
      [] st = "SawPeriod" -> IF byte = NL THEN "SawSecondEnter" ELSE "NoLeads"
      [] OTHER -> "SawSecondEnter"

transition(st, byte) ==
    CASE st = "NoLeads" -> IF byte = NL THEN "SawFirstEnter" ELSE "NoLeads"
      [] st = "SawFirstEnter" -> IF byte = DOT THEN "SawPeriod" ELSE "NoLeads"
      [] st = "SawPeriod" -> IF byte = NL THEN "SawSecondEnter" ELSE "NoLeads"
      [] OTHER -> "SawSecondEnter"

\* for single_byte in &b { finished = finished.transition(*single_byte) }
RECURSIVE feed(_, _)
feed(st, b) == IF b = <<>> THEN st ELSE feed(transition(st, Head(b)), Tail(b))

\* ------------------------------------------------------- daemon session
\* Either<Ser, Send<Ser>>: <<>> is Either::A (the sink is idle), <<f>> is
\* Either::B (a Send of frame f is pending).
Idle == <<>>
Pending(f) == <<f>>

\* Client::start(common, ser, de.into_future())
NewSession ==
    [st |-> "AwaitingCommand", tx |-> Idle, buf |-> <<>>, saw_end |-> FALSE,
     message |-> <<>>, sup |-> 0,
     nread |-> 0,        \* PTY chunks read during this open
     started |-> <<>>,   \* bytes of the SshData sends started during this open
     udata |-> <<>>,     \* bytes of the UserData frames received during this open
     ptyIn |-> <<>>,     \* bytes written to the PTY master during this open
     finalOk |-> 0,      \* final Ok sends started during this open
     err |-> ""]         \* the Error that Failed carries

\* The session's future has resolved (Finished, Failed) or unwound: every
\* resource its state held is dropped.
Ended(s, how) == [NewSession EXCEPT !.st = how]

\* Failed(Error)
Failed(text) == [NewSession EXCEPT !.st = "Failed", !.err = text]

SessionOver(st) == st \in {"Finished", "Failed", "Panicked", "Dropped"}

\* The daemon's halves of client c's socket are dropped: the client reads
\* end of stream after the frames already written.
D2cEof(c) == SessionOver(sess[c].st)

\* cl_rx.poll() / rx.poll(): the frame at the head of the socket, end of
\* stream once the peer has closed, or not ready.
NotReadyMsg == CMsg("NotReady", "-", <<>>)
NoneMsg == CMsg("None", "-", <<>>)
ErrMsg == CMsg("Err", "-", <<>>)
ClRx(c, rx) ==
    IF rx = "err" THEN ErrMsg
    ELSE IF c2d[c] # <<>> THEN Head(c2d[c])
    ELSE IF c2dEof[c] THEN NoneMsg
    ELSE NotReadyMsg

IsFrame(m) == m.t \notin {"NotReady", "None", "Err"}

\* Frames the daemon writes to client c's socket. A peer that no longer
\* reads (or reads and discards) leaves nothing queued.
Reads(c) == cli[c].st \in {"Issue", "FirstAck", "Communicating", "CleaningUpIo", "Finished"}
Wire(c, frames) == [d2c EXCEPT ![c] = IF Reads(c) THEN d2c[c] \o frames ELSE <<>>]

abort_client_SendsOk(s, text) ==
    [s EXCEPT !.st = "Aborting", !.tx = Pending(Ok), !.message = <<>>, !.buf = <<>>, !.sup = 0]

abort_client_Overwrites(s, text) ==
    [s EXCEPT !.st = "Aborting", !.tx = Pending(Error(text)), !.message = <<>>, !.buf = <<>>, !.sup = 0]

\* abort_client(common, tx, rx, message)
abort_client(s, text) ==
    IF s.tx = Idle
    THEN [s EXCEPT !.st = "Aborting", !.tx = Pending(Error(text)), !.message = <<>>,
                   !.buf = <<>>, !.sup = 0]
    ELSE [s EXCEPT !.st = "Aborting", !.message = <<text>>, !.buf = <<>>, !.sup = 0]

\* The first supervisor slot not yet used.
FreeSup == IF \E i \in Sups : mon[i].st = "Unborn"
           THEN CHOOSE i \in Sups : mon[i].st = "Unborn" /\ \A j \in Sups : j < i => mon[j].st # "Unborn"
           ELSE 0

\* Dropping a Tunnel drops its tx_kill: the supervisor paired with it sees
\* its kill channel closed.
DropTunnel(m, j) == IF j = 0 \/ m[j].tx_kill # "held" THEN m ELSE [m EXCEPT ![j].tx_kill = "dropped"]

\* shared.lock().unwrap().children.insert(host, Tunnel { tx_kill })
RegistryInsert(reg, host, i) == [reg EXCEPT ![host] = i]

RegistryRemove_KeepsEntry(reg, key) == reg

\* state.shared.lock().unwrap().children.remove(&state.key)
RegistryRemove(reg, key) == [reg EXCEPT ![key] = 0]

\* handle_client_open_inner: on success spawn the ChildMonitor, insert the
\* Tunnel, hand back the PTY halves and rx_die.
SetupTexts == [pty_fail |-> "failed to create PTY", spawn_fail |-> "failed to launch SSH"]

handle_client_open_UndoesEntry(c, host, setup) ==
    IF setup = "ok"
    THEN LET i == FreeSup
             old == children[host]
             m1 == [mon EXCEPT ![i] = [st |-> "AwaitingChildEvent", key |-> host,
                                       child |-> "running", tx_kill |-> "held",
                                       sent |-> <<>>, die |-> <<>>]]
         IN /\ i # 0
            /\ mon' = DropTunnel(m1, old)
            /\ children' = RegistryInsert(children, host, i)
            /\ sess' = [sess EXCEPT ![c] =
                          [NewSession EXCEPT !.st = "CommunicatingForOpen",
                                             !.tx = Pending(Ok), !.sup = i]]
    ELSE /\ sess' = [sess EXCEPT ![c] = abort_client(sess[c], SetupTexts[setup])]
         /\ mon' = DropTunnel(mon, children[host])
         /\ children' = RegistryRemove(children, host)

handle_client_open(c, host, setup) ==
    IF setup = "ok"
    THEN LET i == FreeSup
             old == children[host]
             m1 == [mon EXCEPT ![i] = [st |-> "AwaitingChildEvent", key |-> host,
                                       child |-> "running", tx_kill |-> "held",
                                       sent |-> <<>>, die |-> <<>>]]
         IN /\ i # 0
            /\ mon' = DropTunnel(m1, old)
            /\ children' = RegistryInsert(children, host, i)
            /\ sess' = [sess EXCEPT ![c] =
                          [NewSession EXCEPT !.st = "CommunicatingForOpen",
                                             !.tx = Pending(Ok), !.sup = i]]
            /\ TRUE
    ELSE /\ sess' = [sess EXCEPT ![c] = abort_client(sess[c], SetupTexts[setup])]
         /\ UNCHANGED << mon, children >>

AfterAwaitingCommand_UserDataIgnored(s, m) ==
    CASE m.t \in {"None", "UserData", "EndOfUserData"} -> s
      [] m.t = "Err" -> Failed("io")
      [] m.t \in {"Exit", "Goodbye"} -> Ended(s, "Finished")
      [] OTHER -> Failed("unexpected message from client")

\* Lines 291-314, every arm but Open: the session after the poll.
AfterAwaitingCommand(s, m) ==
    CASE m.t = "None" -> s
      [] m.t = "Err" -> Failed("io")
      [] m.t \in {"Exit", "Goodbye"} -> Ended(s, "Finished")
      [] OTHER -> Failed("unexpected message from client")

poll_awaiting_command(c, rx, setup) ==
    /\ daemonUp
    /\ sess[c].st = "AwaitingCommand"
    /\ LET m == ClRx(c, rx) IN
       /\ m.t # "NotReady"
       /\ c2d' = [c2d EXCEPT ![c] = IF IsFrame(m) THEN Tail(c2d[c]) ELSE c2d[c]]
       /\ IF m.t = "Open" THEN handle_client_open(c, m.host, setup)
          ELSE /\ setup = "ok"
               /\ UNCHANGED << mon, children >>
               /\ sess' = [sess EXCEPT ![c] = AfterAwaitingCommand(sess[c], m)]
    /\ UNCHANGED << daemonUp, d2c, c2dEof, cli, userLeft, userOut, rawLeft, ptyLeft, accvars, sigvars, startvars >>

\* Lines 331-354: which client frames end the session with an error.
ClientFrameFatal_AcceptsOthers(m, saw_end) == m.t = "UserData" /\ saw_end

ClientFrameFatal_IgnoresSawEnd(m, saw_end) == m.t \in {"Open", "Goodbye", "Exit"}

ClientFrameFatal(m, saw_end) ==
    \/ m.t = "UserData" /\ saw_end
    \/ m.t \in {"Open", "Goodbye", "Exit"}

\* Lines 337-342: what a UserData(data) frame adds to the PTY master. The
\* write is commented out in the source: only a line is printed.
PtyWritten(ptyIn, data) == ptyIn

SinkStarts_WhileBusy(tx, buf) == buf # <<>>

\* Lines 397-411: the send side. An idle sink with bytes buffered starts an
\* SshData send and clears the buffer; a pending send is polled.
SinkStarts(tx, buf) == tx = Idle /\ buf # <<>>

\* Lines 424-425: the final Ok is sent when saw_end holds and the sink came
\* out of this poll idle.
FinalOkDue_NoSawEnd(saw_end, tx1) == tx1 = Idle

FinalOkDue(saw_end, tx1) == saw_end /\ tx1 = Idle

\* The chunk the PTY yields at its n-th read.
PtyChunk(n) == << n >>

\* poll_communicating_for_open past the client-frame match: s already holds
\* this poll's saw_end. Returns the session after the poll and the frames
\* that reached the socket.
CommSend(s, ssh, snd) ==
    IF ssh = "Err"
    THEN [s |-> abort_client(s, "something went wrong communicating with the SSH process"),
          wire |-> <<>>]
    ELSE
    LET s1 == IF ssh = "Chunk"
              THEN [s EXCEPT !.buf = s.buf \o PtyChunk(s.nread + 1), !.nread = s.nread + 1]
              ELSE s
    IN  IF s1.tx # Idle /\ snd = "NotReady"
        THEN [s |-> Ended(s1, "Panicked"), wire |-> <<>>]
        ELSE IF s1.tx # Idle /\ snd = "Err"
        THEN [s |-> Failed("io"), wire |-> <<>>]
        ELSE
        LET starts == SinkStarts(s1.tx, s1.buf)
            wire == IF s1.tx # Idle THEN s1.tx ELSE <<>>
            tx1 == IF starts THEN Pending(SshData(s1.buf)) ELSE Idle
            s2 == [s1 EXCEPT !.tx = tx1,
                             !.buf = IF starts THEN <<>> ELSE s1.buf,
                             !.started = IF starts THEN s1.started \o s1.buf ELSE s1.started]
        IN  IF FinalOkDue(s2.saw_end, tx1)
            THEN [s |-> [s2 EXCEPT !.st = "FinalizingOpen", !.tx = Pending(Ok),
                                   !.buf = <<>>, !.sup = 0, !.finalOk = s2.finalOk + 1],
                  wire |-> wire]
            ELSE [s |-> s2, wire |-> wire]

CommStep(s, m, ssh, snd) ==
    IF m.t = "Err"
    THEN [s |-> Failed("io"), wire |-> <<>>]
    ELSE IF ClientFrameFatal(m, s.saw_end)
    THEN [s |-> Failed(IF m.t = "UserData"
                       THEN "client changed its mind about being finished"
                       ELSE "unexpected message from the client"),
          wire |-> <<>>]
    ELSE CommSend([s EXCEPT !.saw_end = s.saw_end \/ m.t = "EndOfUserData",
                            !.udata = IF m.t = "UserData" THEN s.udata \o m.data ELSE s.udata,
                            !.ptyIn = IF m.t = "UserData" THEN PtyWritten(s.ptyIn, m.data)
                                      ELSE s.ptyIn],
                  ssh, snd)

\* What the PTY read half can yield: bytes while the child has output left,
\* end of stream or an error once the child is gone.
PtyOutcomes(s) ==
    {"NotReady"}
    \cup (IF ptyLeft > 0 /\ mon[s.sup].child = "running" THEN {"Chunk"} ELSE {})
    \cup (IF mon[s.sup].child # "running" THEN {"Eof", "Err"} ELSE {})

\* What polling a pending Send can yield.
SendOutcomes(tx) == IF tx = Idle THEN {"Ready"} ELSE {"Ready", "NotReady", "Err"}

\* A poll that returned NotReady after state.take() unwinds the task: the
\* executor either drops the task or lets the panic out of Core::run, which
\* ends the process and with it every session and supervisor.
NoMonitor == [st |-> "Unborn", key |-> "-", child |-> "none", tx_kill |-> "none",
              sent |-> <<>>, die |-> <<>>]

Settle(c, s1, crash) ==
    /\ crash \in (IF s1.st = "Panicked" THEN BOOLEAN ELSE {FALSE})
    /\ daemonUp' = ~crash
    /\ IF crash
       THEN /\ sess' = [x \in Clients |-> IF x = c THEN s1 ELSE Ended(sess[x], "Dropped")]
            /\ mon' = [i \in Sups |-> [NoMonitor EXCEPT !.st = "Dropped"]]
            /\ children' = [h \in Hosts |-> 0]
       ELSE /\ sess' = [sess EXCEPT ![c] = s1]
            /\ UNCHANGED << mon, children >>

poll_communicating_for_open(c, rx, ssh, snd, crash) ==
    /\ daemonUp
    /\ sess[c].st = "CommunicatingForOpen"
    /\ ssh \in PtyOutcomes(sess[c])
    /\ snd \in SendOutcomes(sess[c].tx)
    /\ LET m == ClRx(c, rx)
           r == CommStep(sess[c], m, ssh, snd)
       IN /\ Settle(c, r.s, crash)
          /\ c2d' = [c2d EXCEPT ![c] = IF IsFrame(m) THEN Tail(c2d[c]) ELSE c2d[c]]
          /\ d2c' = Wire(c, r.wire)
    /\ ptyLeft' = IF ssh = "Chunk" THEN ptyLeft - 1 ELSE ptyLeft
    /\ UNCHANGED << c2dEof, cli, userLeft, userOut, rawLeft, accvars, sigvars, startvars >>

\* poll_finalizing_open: state.take(), then try_ready!(state.tx.poll()).
poll_finalizing_open(c, snd, crash) ==
    /\ daemonUp
    /\ sess[c].st = "FinalizingOpen"
    /\ snd \in SendOutcomes(sess[c].tx)
    /\ LET s == sess[c]
           s1 == CASE snd = "Ready" -> NewSession
                   [] snd = "NotReady" -> Ended(s, "Panicked")
                   [] OTHER -> Failed("io")
       IN /\ Settle(c, s1, crash)
          /\ d2c' = Wire(c, IF snd = "Ready" THEN s.tx ELSE <<>>)
    /\ UNCHANGED << c2d, c2dEof, cli, userLeft, userOut, rawLeft, ptyLeft, accvars, sigvars, startvars >>

\* poll_aborting: try_ready!(state.tx.poll()) comes before state.take().
poll_aborting(c, snd) ==
    /\ daemonUp
    /\ sess[c].st = "Aborting"
    /\ snd \in {"Ready", "Err"}
    /\ LET s == sess[c]
           s1 == IF snd = "Err" THEN Failed("io")
                 ELSE IF s.message # <<>>
                 THEN [s EXCEPT !.tx = Pending(Error(s.message[1])), !.message = <<>>]
                 ELSE Failed("ending connection now that client has been notified")
       IN /\ sess' = [sess EXCEPT ![c] = s1]
          /\ d2c' = Wire(c, IF snd = "Ready" THEN s.tx ELSE <<>>)
    /\ UNCHANGED << daemonUp, children, mon, c2d, c2dEof, cli, userLeft, userOut,
                    rawLeft, ptyLeft, accvars, sigvars, startvars >>

\* ------------------------------------------------------ child supervisor
\* rx_die is held by the session that opened the tunnel while it is in
\* CommunicatingForOpen (field ssh_die), and dropped with that state.
RxDieHeld(i) == \E c \in Clients : sess[c].st = "CommunicatingForOpen" /\ sess[c].sup = i

\* The SSH child ends on its own. The exit shows in the supervisor's
\* child.poll() and in the PTY read of the session that proxies the child.
ChildExit(i) ==
    /\ mon[i].child = "running"
    /\ mon[i].st = "AwaitingChildEvent" \/ \E c \in Clients : sess[c].sup = i
    /\ mon' = [mon EXCEPT ![i].child = "exited"]
    /\ UNCHANGED << daemonUp, children, sess, c2d, d2c, c2dEof, cli,
                    userLeft, userOut, rawLeft, ptyLeft, accvars, sigvars, startvars >>

\* Lines 649-658 and 668-677: the registry entry under the supervisor's key
\* is removed, the kill receiver closed and the death notice started.
Notify(i, payload, childNow) ==
    LET gone == children[mon[i].key]
        m1 == [mon EXCEPT ![i].st = "NotifyingChildDied", ![i].child = childNow,
                          ![i].tx_kill = "none", ![i].sent = <<payload>>]
    IN /\ children' = RegistryRemove(children, mon[i].key)
       /\ mon' = DropTunnel(m1, gone)

poll_awaiting_child_event_KillFirst(i, cpoll) ==
    /\ daemonUp
    /\ mon[i].st = "AwaitingChildEvent"
    /\ IF cpoll = "Err"
       THEN /\ mon' = [mon EXCEPT ![i].st = "ChildError", ![i].tx_kill = "none"]
            /\ UNCHANGED children
       ELSE /\ cpoll = "Ok"
            /\ IF mon[i].tx_kill = "dropped" THEN Notify(i, "None", "killed")
               ELSE /\ mon[i].child = "exited"
                    /\ Notify(i, "Some", "exited")
    /\ UNCHANGED << daemonUp, sess, c2d, d2c, c2dEof, cli, userLeft, userOut,
                    rawLeft, ptyLeft, accvars, sigvars, startvars >>

poll_awaiting_child_event(i, cpoll) ==
    /\ daemonUp
    /\ mon[i].st = "AwaitingChildEvent"
    /\ IF cpoll = "Err"
       THEN /\ mon' = [mon EXCEPT ![i].st = "ChildError", ![i].tx_kill = "none"]
            /\ UNCHANGED children
       ELSE /\ cpoll = "Ok"
            /\ IF mon[i].child = "exited" THEN Notify(i, "Some", "exited")
               ELSE /\ mon[i].tx_kill = "dropped"
                    /\ Notify(i, "None", "killed")
    /\ UNCHANGED << daemonUp, sess, c2d, d2c, c2dEof, cli, userLeft, userOut,
                    rawLeft, ptyLeft, accvars, sigvars, startvars >>

\* poll_notifying_child_died: Send<Sender<Option<ExitStatus>>>::poll. The
\* item is queued unless the receiver is gone; completion is immediate or
\* waits for the slot, depending on the channel implementation.
poll_notifying_child_died(i, done) ==
    /\ daemonUp
    /\ mon[i].st = "NotifyingChildDied"
    /\ IF mon[i].sent # <<>> /\ ~RxDieHeld(i)
       THEN /\ done
            /\ mon' = [mon EXCEPT ![i].st = "ChildError", ![i].sent = <<>>]
       ELSE mon' = [mon EXCEPT ![i].st = IF done \/ ~RxDieHeld(i) THEN "ChildReaped"
                                         ELSE "NotifyingChildDied",
                               ![i].die = IF mon[i].sent # <<>> THEN mon[i].sent ELSE mon[i].die,
                               ![i].sent = <<>>]
    /\ UNCHANGED << daemonUp, children, sess, c2d, d2c, c2dEof, cli, userLeft,
                    userOut, rawLeft, ptyLeft, accvars, sigvars, startvars >>

\* ------------------------------------------------------- client workflow
\* OpenWorkflow::start(fut, de, tx_user, rx_user), fut = ser.send(Open(params))
NewWorkflow(host) ==
    [st |-> "Issue", tx |-> Pending(Open(host)), saw_ok |-> FALSE,
     ssh_buf |-> <<>>, user_buf |-> <<>>, finished |-> "NoLeads",
     sent_finished_message |-> FALSE, result |-> "-", err |-> ""]

RawClient == [NewWorkflow("h1") EXCEPT !.st = "Raw", !.tx = Idle]

WfFailed(w, text) == [RawClient EXCEPT !.st = "Failed", !.err = text]

\* The workflow's future has resolved with an error, or spins inside one
\* poll: it will not read or write the socket again.
WfDead(st) == st \in {"Failed", "Spinning"}

\* poll_first_ack's loop over the frames that are ready, q; eof says the
\* stream ends after them.
RECURSIVE FirstAckDrain(_, _, _)
FirstAckDrain(w, q, eof) ==
    IF q = <<>>
    THEN IF eof THEN WfFailed(w, "connection closed (?)") ELSE w
    ELSE LET m == Head(q) IN
         CASE m.t = "Ok" -> FirstAckDrain([w EXCEPT !.saw_ok = TRUE], Tail(q), eof)
           [] m.t = "Error" -> WfFailed(w, m.text)
           [] m.t = "TunnelAlreadyOpen" -> [w EXCEPT !.st = "Finished", !.result = "AlreadyOpen"]
           [] OTHER -> WfFailed(w, "unexpected response from daemon")

\* poll_communicating's loop over the daemon frames that are ready.
RECURSIVE CommDrain(_, _, _)
CommDrain(w, q, eof) ==
    IF q = <<>>
    THEN IF eof THEN [RawClient EXCEPT !.st = "Spinning"] ELSE w
    ELSE LET m == Head(q) IN
         CASE m.t = "SshData" -> CommDrain([w EXCEPT !.user_buf = w.user_buf \o m.data], Tail(q), eof)
           [] m.t = "Error" -> WfFailed(w, m.text)
           [] OTHER -> WfFailed(w, "unexpected message from the daemon")

RECURSIVE CleanDrain_ErrorIgnored(_, _, _)
CleanDrain_ErrorIgnored(w, q, eof) ==
    IF q = <<>>
    THEN IF eof THEN [RawClient EXCEPT !.st = "Spinning"] ELSE w
    ELSE LET m == Head(q) IN
         CASE m.t \in {"SshData", "Error"} -> CleanDrain_ErrorIgnored(w, Tail(q), eof)
           [] m.t = "Ok" -> CleanDrain_ErrorIgnored([w EXCEPT !.saw_ok = TRUE], Tail(q), eof)
           [] OTHER -> WfFailed(w, "unexpected message from the daemon")

\* poll_cleaning_up_io's loop over the daemon frames that are ready.
RECURSIVE CleanDrain(_, _, _)
CleanDrain(w, q, eof) ==
    IF q = <<>>
    THEN IF eof THEN [RawClient EXCEPT !.st = "Spinning"] ELSE w
    ELSE LET m == Head(q) IN
         CASE m.t = "SshData" -> CleanDrain(w, Tail(q), eof)
           [] m.t = "Error" -> WfFailed(w, m.text)
           [] m.t = "Ok" -> CleanDrain([w EXCEPT !.saw_ok = TRUE], Tail(q), eof)
           [] OTHER -> WfFailed(w, "unexpected message from the daemon")

\* The frames left unread when poll_first_ack returns at TunnelAlreadyOpen.
RECURSIVE AfterAlreadyOpen(_)
AfterAlreadyOpen(q) ==
    IF q = <<>> THEN <<>>
    ELSE IF Head(q).t = "TunnelAlreadyOpen" THEN Tail(q) ELSE AfterAlreadyOpen(Tail(q))

\* The client process is gone once the workflow failed: its socket closes.
ClientSocket(c, w, flushed) ==
    /\ cli' = [cli EXCEPT ![c] = w]
    /\ c2d' = [c2d EXCEPT ![c] = c2d[c] \o flushed]
    /\ c2dEof' = [c2dEof EXCEPT ![c] = c2dEof[c] \/ w.st = "Failed"]
    /\ d2c' = [d2c EXCEPT ![c] = IF w.st = "Finished" /\ w.result = "AlreadyOpen"
                                 THEN AfterAlreadyOpen(d2c[c]) ELSE <<>>]

Take(q, k) == SubSeq(q, 1, k)
Drop(q, k) == SubSeq(q, k + 1, Len(q))

\* The bytes of a run of chunks.
RECURSIVE Flat(_)
Flat(chunks) == IF chunks = <<>> THEN <<>> ELSE Head(chunks) \o Flat(Tail(chunks))

poll_issue(c, snd) ==
    /\ cli[c].st = "Issue"
    /\ snd \in {"Ready", "Err"}
    /\ LET w == cli[c] IN
       IF snd = "Ready"
       THEN /\ cli' = [cli EXCEPT ![c] = [w EXCEPT !.st = "FirstAck", !.tx = Idle, !.saw_ok = FALSE]]
            /\ c2d' = [c2d EXCEPT ![c] = c2d[c] \o w.tx]
            /\ UNCHANGED << c2dEof, d2c >>
       ELSE /\ cli' = [cli EXCEPT ![c] = WfFailed(w, "io")]
            /\ c2dEof' = [c2dEof EXCEPT ![c] = TRUE]
            /\ UNCHANGED << c2d, d2c >>
    /\ UNCHANGED << daemonUp, children, sess, mon, userLeft, userOut, rawLeft, ptyLeft, accvars, sigvars, startvars >>

poll_first_ack(c, rx) ==
    /\ cli[c].st = "FirstAck"
    /\ rx \in {"ok", "err"}
    /\ rx = "ok" => (d2c[c] # <<>> \/ D2cEof(c))
    /\ LET w == IF rx = "err" THEN WfFailed(cli[c], "io")
                ELSE FirstAckDrain(cli[c], d2c[c], D2cEof(c))
           w1 == IF w.st = "FirstAck" /\ w.saw_ok
                 THEN [w EXCEPT !.st = "Communicating", !.user_buf = <<>>, !.ssh_buf = <<>>,
                                !.finished = "SawFirstEnter"]
                 ELSE w
       IN ClientSocket(c, w1, <<>>)
    /\ UNCHANGED << daemonUp, children, sess, mon, userLeft, userOut, rawLeft, ptyLeft, accvars, sigvars, startvars >>

\* poll_communicating. k chunks of user input are ready (uin = "eof": the
\* terminal ends after them); us and ss are what start_send answers on the
\* user sink and the daemon sink, fl whether both poll_complete calls are
\* ready.
poll_communicating(c, rx, k, uin, us, ss, fl) ==
    /\ cli[c].st = "Communicating"
    /\ k \in 0..Len(userLeft[c])
    /\ uin = "eof" => k = Len(userLeft[c])
    /\ LET w0 == IF rx = "err" THEN WfFailed(cli[c], "io")
                 ELSE CommDrain(cli[c], d2c[c], D2cEof(c))
           b == Flat(Take(userLeft[c], k))
           w1 == [w0 EXCEPT !.ssh_buf = w0.ssh_buf \o b, !.finished = feed(w0.finished, b)]
           toUser == w1.user_buf # <<>> /\ us = "Ready"
           toSsh == w1.ssh_buf # <<>> /\ ss = "Ready"
           w2 == [w1 EXCEPT !.user_buf = IF toUser THEN <<>> ELSE w1.user_buf,
                            !.ssh_buf = IF toSsh THEN <<>> ELSE w1.ssh_buf]
           w3 == IF fl = "Ready" /\ w2.finished = "SawSecondEnter"
                 THEN [RawClient EXCEPT !.st = "CleaningUpIo"]
                 ELSE w2
       IN IF w0.st # "Communicating"
          THEN /\ k = 0 /\ uin = "ok" /\ us = "Ready" /\ ss = "Ready" /\ fl = "Ready"
               /\ ClientSocket(c, w0, <<>>)
               /\ UNCHANGED << userLeft, userOut >>
          ELSE IF uin = "eof"
          THEN /\ us = "Ready" /\ ss = "Ready" /\ fl = "Ready"
               /\ ClientSocket(c, WfFailed(w1, "EOF on terminal (?)"), <<>>)
               /\ userLeft' = [userLeft EXCEPT ![c] = <<>>]
               /\ UNCHANGED userOut
          ELSE /\ (w1.user_buf = <<>> => us = "Ready")
               /\ (w1.ssh_buf = <<>> => ss = "Ready")
               /\ ClientSocket(c, w3, IF toSsh THEN <<UserData(w1.ssh_buf)>> ELSE <<>>)
               /\ userLeft' = [userLeft EXCEPT ![c] = Drop(userLeft[c], k)]
               /\ userOut' = [userOut EXCEPT ![c] = IF toUser THEN userOut[c] \o w1.user_buf
                                                   ELSE userOut[c]]
    /\ UNCHANGED << daemonUp, children, sess, mon, rawLeft, ptyLeft, accvars, sigvars, startvars >>

\* poll_cleaning_up_io
poll_cleaning_up_io(c, rx, ss, fl) ==
    /\ cli[c].st = "CleaningUpIo"
    /\ cli[c].sent_finished_message => ss = "Ready"
    /\ fl = "NotReady" => rx = "ok"
    /\ LET w == cli[c]
           sends == ~w.sent_finished_message /\ ss = "Ready"
           w1 == [w EXCEPT !.sent_finished_message = w.sent_finished_message \/ sends]
           w3 == IF rx = "err" THEN WfFailed(w1, "io")
                 ELSE CleanDrain(w1, d2c[c], D2cEof(c))
           w4 == IF w3.st = "CleaningUpIo" /\ w3.saw_ok
                 THEN [RawClient EXCEPT !.st = "Finished", !.result = "Success"]
                 ELSE w3
           out == IF sends THEN <<EndOfUserData>> ELSE <<>>
       IN IF fl = "NotReady"
          THEN /\ cli' = [cli EXCEPT ![c] = w1]
               /\ c2d' = [c2d EXCEPT ![c] = c2d[c] \o out]
               /\ UNCHANGED << c2dEof, d2c >>
          ELSE ClientSocket(c, w4, out)
    /\ UNCHANGED << daemonUp, children, sess, mon, userLeft, userOut, rawLeft, ptyLeft, accvars, sigvars, startvars >>

\* Connection::close: core.run(self.ser.send(ClientMessage::Goodbye)), then
\* the Connection is dropped.
close(c) ==
    /\ cli[c].st = "Finished"
    /\ cli' = [cli EXCEPT ![c].st = "Closed"]
    /\ c2d' = [c2d EXCEPT ![c] = c2d[c] \o <<Goodbye>>]
    /\ c2dEof' = [c2dEof EXCEPT ![c] = TRUE]
    /\ UNCHANGED << daemonUp, children, sess, mon, d2c, userLeft, userOut,
                    rawLeft, ptyLeft, accvars, sigvars, startvars >>

\* ------------------------------------------------------ hand-driven peer
RawFrames == {Open(h) : h \in Hosts} \cup {UserData(<<97>>), EndOfUserData, Goodbye, Exit}

RawSend(c, m) ==
    /\ cli[c].st = "Raw"
    /\ ~c2dEof[c]
    /\ c2d[c] = <<>>
    /\ rawLeft[c] > 0
    /\ rawLeft' = [rawLeft EXCEPT ![c] = rawLeft[c] - 1]
    /\ c2d' = [c2d EXCEPT ![c] = c2d[c] \o <<m>>]
    /\ UNCHANGED << daemonUp, children, sess, mon, d2c, c2dEof, cli, userLeft,
                    userOut, ptyLeft, accvars, sigvars, startvars >>

RawClose(c) ==
    /\ cli[c].st = "Raw"
    /\ ~c2dEof[c]
    /\ c2d[c] = <<>>
    /\ rawLeft[c] > 0
    /\ rawLeft' = [rawLeft EXCEPT ![c] = rawLeft[c] - 1]
    /\ c2dEof' = [c2dEof EXCEPT ![c] = TRUE]
    /\ UNCHANGED << daemonUp, children, sess, mon, c2d, d2c, cli, userLeft,
                    userOut, ptyLeft, accvars, sigvars, startvars >>

\* ------------------------------------------------- daemon top level
\* A connection the accept loop has not yet handed to process_client.
NotAccepted == [NewSession EXCEPT !.st = "NotAccepted"]

\* listener.incoming().for_each(.. process_client(socket, sockaddr, shared) ..)
process_client(c) ==
    /\ daemonUp
    /\ sess[c].st = "NotAccepted"
    /\ sess' = [sess EXCEPT ![c] = NewSession]
    /\ UNCHANGED << daemonUp, children, mon, c2d, d2c, c2dEof, cli, userLeft, userOut,
                    rawLeft, ptyLeft, accvars, sigvars, startvars >>

\* The process is over: the Core is dropped and with it every spawned task
\* (sessions, supervisors, the accept loop, the signal tasks) and the shared
\* State with its registry.
ProcessEnds ==
    /\ daemonUp' = FALSE
    /\ sess' = [c \in Clients |-> IF sess[c].st = "NotAccepted" THEN sess[c]
                                   ELSE Ended(sess[c], "Dropped")]
    /\ mon' = [i \in Sups |-> [NoMonitor EXCEPT !.st = "Dropped"]]
    /\ children' = [h \in Hosts |-> 0]

\* A process can install a handler for every signal of FATAL_SIGNALS but
\* SIGKILL, which ends it on delivery.
Catchable(g) == g # "SIGKILL"

\* Signal g is delivered to the daemon process: its signal stream becomes
\* ready, or the process is killed.
Deliver(g) ==
    /\ daemonUp
    /\ sigTask[g] = "Listening"
    /\ sigTask' = [sigTask EXCEPT ![g] = "Delivered"]
    /\ IF Catchable(g)
       THEN UNCHANGED << daemonUp, sess, mon, children >>
       ELSE ProcessEnds
    /\ UNCHANGED << c2d, d2c, c2dEof, cli, userLeft, userOut, rawLeft, ptyLeft,
                    rx_exit, accvars, startvars >>

\* The task of signal g: the stream yields, the closure logs and sends ()
\* on its clone of tx_exit; channel(8) has room for every signal task.
poll_signal_task(g) ==
    /\ daemonUp
    /\ sigTask[g] = "Delivered"
    /\ sigTask' = [sigTask EXCEPT ![g] = "Done"]
    /\ rx_exit' = rx_exit + 1
    /\ UNCHANGED << daemonUp, children, sess, mon, c2d, d2c, c2dEof, cli, userLeft,
                    userOut, rawLeft, ptyLeft, accvars, startvars >>

serve_KeepsRunning ==
    /\ daemonUp
    /\ rx_exit > 0
    /\ rx_exit' = rx_exit - 1
    /\ UNCHANGED << daemonUp, children, sess, mon, sigTask, c2d, d2c, c2dEof, cli,
                    userLeft, userOut, rawLeft, ptyLeft, accvars, startvars >>

\* core.run(rx_exit.into_future()) resolves on the first item, serve
\* returns Ok(()).
serve ==
    /\ daemonUp
    /\ rx_exit > 0
    /\ rx_exit' = rx_exit - 1
    /\ ProcessEnds
    /\ UNCHANGED << sigTask, c2d, d2c, c2dEof, cli, userLeft, userOut, rawLeft,
                    ptyLeft, accvars, startvars >>

\* ---------------------------------------------------------- daemon start
\* StdUnixStream::connect(&p) succeeds when a listening socket is bound at
\* the path.
Connects == sock_path \in Daemons /\ start[sock_path] = "Listening"

\* State::new up to the probe: connecting succeeds and the start is refused,
\* or it fails and the start goes on.
new_probe(d) ==
    /\ start[d] = "Probe"
    /\ start' = [start EXCEPT ![d] = IF Connects THEN "Refused" ELSE "Remove"]
    /\ UNCHANGED << sock_path, daemonUp, children, sess, mon, c2d, d2c, c2dEof, cli,
                    userLeft, userOut, rawLeft, ptyLeft, accvars, sigvars >>

\* State::new from fs::remove_file(&p) on: whatever is at the path is
\* unlinked (NotFound is ignored); any other error, or a failure to set up
\* the log or to daemonize, ends the start.
new_remove(d, err) ==
    /\ start[d] = "Remove"
    /\ IF err
       THEN /\ start' = [start EXCEPT ![d] = "Failed"]
            /\ UNCHANGED sock_path
       ELSE /\ start' = [start EXCEPT ![d] = "Bind"]
            /\ sock_path' = "absent"
    /\ UNCHANGED << daemonUp, children, sess, mon, c2d, d2c, c2dEof, cli,
                    userLeft, userOut, rawLeft, ptyLeft, accvars, sigvars >>

\* serve: UnixListener::bind(&self.sock_path, &handle)? creates the socket
\* file and fails when the path exists.
serve_bind(d) ==
    /\ start[d] = "Bind"
    /\ IF sock_path = "absent"
       THEN /\ start' = [start EXCEPT ![d] = "Listening"]
            /\ sock_path' = d
            /\ daemonUp' = TRUE
       ELSE /\ start' = [start EXCEPT ![d] = "Failed"]
            /\ UNCHANGED << sock_path, daemonUp >>
    /\ UNCHANGED << children, sess, mon, c2d, d2c, c2dEof, cli,
                    userLeft, userOut, rawLeft, ptyLeft, accvars, sigvars >>

\* serve returns, or the process is killed: the listener goes away and the
\* socket file stays where it is.
serve_exit(d) ==
    /\ start[d] = "Listening"
    /\ start' = [start EXCEPT ![d] = "Exited"]
    /\ daemonUp' = \E e \in Daemons \ {d} : start[e] = "Listening"
    /\ UNCHANGED << sock_path, children, sess, mon, c2d, d2c, c2dEof, cli,
                    userLeft, userOut, rawLeft, ptyLeft, accvars, sigvars >>

\* ------------------------------------------------------- specification
\* What the user types after the client enters Communicating.
Scripts == { << <<DOT, NL>> >>, << <<97, NL>>, <<DOT, NL>> >>, << <<97>> >> }

AccIdle == /\ accB = <<>> /\ accFed = 0 /\ accSt = "NoLeads" /\ accStart = "NoLeads"

\* The tasks and sockets of the serving daemon, every connection in session
\* state s0.
Machine(s0, workflows, scripts, raw, pty) ==
    /\ children = [h \in Hosts |-> 0]
    /\ sess = [c \in Clients |-> s0]
    /\ mon = [i \in Sups |-> NoMonitor]
    /\ c2d = [c \in Clients |-> <<>>]
    /\ d2c = [c \in Clients |-> <<>>]
    /\ c2dEof = [c \in Clients |-> FALSE]
    /\ cli = [c \in Clients |-> IF c \in workflows THEN NewWorkflow("h1") ELSE RawClient]
    /\ userLeft \in [Clients -> scripts \cup {<<>>}]
    /\ \A c \in Clients : userLeft[c] = <<>> <=> c \notin workflows
    /\ userOut = [c \in Clients |-> <<>>]
    /\ rawLeft = raw
    /\ ptyLeft = pty
    /\ sigTask = [g \in Signals |-> "Listening"]
    /\ rx_exit = 0

\* One daemon has come through State::new and bound the socket in serve; no
\* other has been started.
Boot(s0, workflows, scripts, raw, pty) ==
    /\ Machine(s0, workflows, scripts, raw, pty)
    /\ daemonUp = TRUE
    /\ start = [d \in Daemons |-> IF d = Serving THEN "Listening" ELSE "NotStarted"]
    /\ sock_path = Serving

\* Both connections accepted, their sessions started.
Start(workflows, scripts, raw, pty) == Boot(NewSession, workflows, scripts, raw, pty)

IoSend == {"Ready", "NotReady", "Err"}
IoSink == {"Ready", "NotReady"}
Setups == {"ok", "pty_fail", "spawn_fail"}

DaemonNext ==
    \/ \E c \in Clients, rx \in {"ok", "err"}, setup \in Setups : poll_awaiting_command(c, rx, setup)
    \/ \E c \in Clients, rx \in {"ok", "err"}, ssh \in {"NotReady", "Chunk", "Eof", "Err"},
          snd \in IoSend, crash \in BOOLEAN : poll_communicating_for_open(c, rx, ssh, snd, crash)
    \/ \E c \in Clients, snd \in IoSend, crash \in BOOLEAN : poll_finalizing_open(c, snd, crash)
    \/ \E c \in Clients, snd \in IoSend : poll_aborting(c, snd)
    \/ \E i \in Sups : ChildExit(i)
    \/ \E i \in Sups, cpoll \in {"Ok", "Err"} : poll_awaiting_child_event(i, cpoll)
    \/ \E i \in Sups, done \in BOOLEAN : poll_notifying_child_died(i, done)

WorkflowNext ==
    \/ \E c \in Clients, snd \in IoSend : poll_issue(c, snd)
    \/ \E c \in Clients, rx \in {"ok", "err"} : poll_first_ack(c, rx)
    \/ \E c \in Clients, rx \in {"ok", "err"}, k \in 0..2, uin \in {"ok", "eof"},
          us \in IoSink, ss \in IoSink, fl \in IoSink :
          poll_communicating(c, rx, k, uin, us, ss, fl)
    \/ \E c \in Clients, rx \in {"ok", "err"}, ss \in IoSink, fl \in IoSink :
          poll_cleaning_up_io(c, rx, ss, fl)
    \/ \E c \in Clients : close(c)

PeerNext ==
    \/ \E c \in Clients, m \in RawFrames : RawSend(c, m)
    \/ \E c \in Clients : RawClose(c)

NoRaw == [c \in Clients |-> 0]

\* The open exchange on its own: the workflow client, its session and the
\* supervisor of its tunnel.
InitOpen == Start({Workflow}, Scripts, NoRaw, MaxPty) /\ AccIdle
SpecOpen == InitOpen /\ [][DaemonNext \/ WorkflowNext]_vars

\* One hand-driven peer: any frame sequence against one session.
InitPeer == Start({}, Scripts, [NoRaw EXCEPT ![RawPeer] = MaxRaw], 1) /\ AccIdle
SpecPeer == InitPeer /\ [][DaemonNext \/ PeerNext]_vars

\* Two hand-driven peers, so two sessions run side by side: one sends an
\* Open and the frame after it, the other one frame; the PTYs stay silent.
InitTwo ==
    /\ Start({}, Scripts, [c \in Clients |-> IF c = RawPeer THEN 2 ELSE 1], 0)
    /\ AccIdle
SpecTwo == InitTwo /\ [][DaemonNext \/ PeerNext]_vars

\* The terminator acceptor on its own: a byte stream accB is fed to
\* FinishCommunicationState::transition one byte at a time, from NoLeads or
\* from SawFirstEnter (the state poll_first_ack seeds).
RECURSIVE Streams(_)
Streams(n) ==
    IF n = 0 THEN {<<>>}
    ELSE LET shorter == Streams(n - 1)
         IN shorter \cup {Append(b, x) : b \in {y \in shorter : Len(y) = n - 1}, x \in Bytes}

InitAcc ==
    /\ Start({}, Scripts, NoRaw, 0)
    /\ accB \in Streams(MaxLen)
    /\ accStart \in {"NoLeads", "SawFirstEnter"}
    /\ accSt = accStart
    /\ accFed = 0

FeedByte ==
    /\ accFed < Len(accB)
    /\ accSt' = transition(accSt, accB[accFed + 1])
    /\ accFed' = accFed + 1
    /\ UNCHANGED << sysvars, accB, accStart >>

SpecAcc == InitAcc /\ [][FeedByte]_vars

\* The clean open: setup succeeds, the user types a script that ends the
\* session, and no socket, sink or PTY operation fails or has to wait; the
\* SSH child keeps running and may write to its PTY. tokio polls a task
\* whenever what it waits for is ready, so every poll that can make progress
\* is eventually made: weak fairness of the daemon's polls and of the
\* client's.
EndingScripts == {sc \in Scripts : feed("SawFirstEnter", Flat(sc)) = "SawSecondEnter"}

InitClean == Start({Workflow}, EndingScripts, NoRaw, MaxPty) /\ AccIdle

CleanDaemon ==
    \/ \E c \in Clients : poll_awaiting_command(c, "ok", "ok")
    \/ \E c \in Clients, ssh \in {"NotReady", "Chunk"} :
          poll_communicating_for_open(c, "ok", ssh, "Ready", FALSE)
    \/ \E c \in Clients : poll_finalizing_open(c, "Ready", FALSE)

CleanClient ==
    \/ \E c \in Clients : poll_issue(c, "Ready")
    \/ \E c \in Clients : poll_first_ack(c, "ok")
    \/ \E c \in Clients, k \in 0..2 :
          poll_communicating(c, "ok", k, "ok", "Ready", "Ready", "Ready")
    \/ \E c \in Clients : poll_cleaning_up_io(c, "ok", "Ready", "Ready")

SpecClean ==
    /\ InitClean
    /\ [][CleanDaemon \/ CleanClient]_vars
    /\ WF_vars(CleanDaemon)
    /\ WF_vars(CleanClient)

\* The workflow client driven by a reactor that keeps polling it: a client
\* poll that can make progress without any I/O failing is eventually made.
\* The daemon may fail at any point.
SpecOpenFair == SpecOpen /\ WF_vars(CleanClient)

\* The open exchange when the first thing the user types is the terminator.
InitImmediate == Start({Workflow}, { << <<DOT, NL>> >> }, NoRaw, MaxPty) /\ AccIdle
SpecImmediate == InitImmediate /\ [][DaemonNext \/ WorkflowNext]_vars

\* One hand-driven peer against a daemon whose reactor keeps polling: a
\* session poll that can make progress without any I/O failing is
\* eventually made. Failures may happen but are not owed.
SessionPoll(c) ==
    \/ poll_awaiting_command(c, "ok", "ok")
    \/ \E ssh \in {"NotReady", "Chunk"} : poll_communicating_for_open(c, "ok", ssh, "Ready", FALSE)
    \/ poll_finalizing_open(c, "Ready", FALSE)
    \/ poll_aborting(c, "Ready")

SpecPeerFair == SpecPeer /\ \A c \in Clients : WF_vars(SessionPoll(c))

\* A supervisor's polls as the reactor makes them when nothing fails: the
\* child and the kill channel are looked at, and a pending death notice
\* completes once the receiver has gone and otherwise waits for its slot in
\* the channel of capacity 0.
SupervisorPoll(i) ==
    \/ poll_awaiting_child_event(i, "Ok")
    \/ poll_notifying_child_died(i, ~RxDieHeld(i))

\* One hand-driven peer against a daemon whose reactor keeps polling the
\* sessions and the supervisors.
SpecSupFair == SpecPeerFair /\ \A i \in Sups : WF_vars(SupervisorPoll(i))

\* The daemon under signals: two peers connect and open tunnels, nothing
\* fails, and a fatal signal may arrive at any moment. The reactor polls a
\* signal task once its stream is ready and the main task once the exit
\* channel holds an item: weak fairness of both.
SignalFrames == {Open(h) : h \in Hosts} \cup {UserData(<<97>>), EndOfUserData, Goodbye, Exit}

SignalNext ==
    \/ \E c \in Clients : process_client(c)
    \/ \E c \in Clients, m \in SignalFrames : RawSend(c, m)
    \/ CleanDaemon
    \/ \E g \in Signals : Deliver(g)
    \/ \E g \in Signals : poll_signal_task(g)
    \/ serve

InitSignal ==
    /\ Boot(NotAccepted, {}, Scripts, [c \in Clients |-> IF c = RawPeer THEN 2 ELSE 1], 0)
    /\ AccIdle

SpecSignal ==
    /\ InitSignal
    /\ [][SignalNext]_vars
    /\ WF_vars(\E g \in Signals : poll_signal_task(g))
    /\ WF_vars(serve)

\* Daemon processes started at any time by the same user, over a path that
\* is free or holds the socket file a former daemon left behind.
StartNext ==
    \/ \E d \in Daemons : new_probe(d)
    \/ \E d \in Daemons, err \in BOOLEAN : new_remove(d, err)
    \/ \E d \in Daemons : serve_bind(d)
    \/ \E d \in Daemons : serve_exit(d)

InitStart ==
    /\ Machine(NotAccepted, {}, Scripts, NoRaw, 0)
    /\ AccIdle
    /\ daemonUp = FALSE
    /\ start = [d \in Daemons |-> "Probe"]
    /\ sock_path \in {"absent", "stale"}

SpecStart == InitStart /\ [][StartNext]_vars

\* ---------------------------------------------------------- properties
\* The stream b contains the two-byte sequence '.' newline.
HasTerminator(b) == \E i \in 1..(Len(b) - 1) : b[i] = DOT /\ b[i + 1] = NL

\* The bytes fed to the acceptor so far.
Fed == Take(accB, accFed)

\* C8: started in SawFirstEnter and fed a stream byte by byte, the acceptor
\* is in SawSecondEnter exactly from the shortest prefix that contains
\* '.' newline on: after every prefix it is in SawSecondEnter if and only
\* if that prefix contains '.' newline.
C8_AcceptsAtShortestPrefix ==
    accStart = "SawFirstEnter" => (accSt = "SawSecondEnter" <=> HasTerminator(Fed))

\* C9: started in SawFirstEnter or in NoLeads, the acceptor is in
\* SawSecondEnter only after a prefix that contains '.' newline, so a stream
\* without that sequence is never accepted.
C9_NeverAcceptsWithoutTerminator ==
    accSt = "SawSecondEnter" => HasTerminator(Fed)

\* A whole stream with a period and a newline in it, but never '.' newline,
\* has been fed from SawFirstEnter and was not accepted.
C9_Witness ==
    /\ accStart = "SawFirstEnter"
    /\ accFed = Len(accB)
    /\ Len(accB) >= 3
    /\ accB[1] = DOT
    /\ \E i \in 2..Len(accB) : accB[i] = NL
    /\ ~HasTerminator(accB)
    /\ accSt # "SawSecondEnter"

\* The bytes of the first n chunks a session read from its PTY.
RECURSIVE PtyRead(_)
PtyRead(n) == IF n = 0 THEN <<>> ELSE PtyRead(n - 1) \o PtyChunk(n)

\* This step, the daemon's session c takes a frame of one of the given
\* types off its socket.
Received(c, types) ==
    /\ c2d[c] # <<>>
    /\ Head(c2d[c]).t \in types
    /\ c2d'[c] = Tail(c2d[c])

\* C1: in a clean open (setup succeeds, the user types the terminator, no
\* I/O fails) under fair scheduling, eventually the client workflow is
\* Finished with result Success, the daemon session is back in
\* AwaitingCommand and the registry holds the entry for the host.
C1_CleanOpenSucceeds ==
    <>(/\ cli[Workflow].st = "Finished"
       /\ cli[Workflow].result = "Success"
       /\ sess[Workflow].st = "AwaitingCommand"
       /\ children["h1"] # 0)

\* C2: when the final Ok send has been started, every byte the session read
\* from the PTY during this open has been handed to the codec in an SshData
\* frame: none was still in the buffer, to be discarded by the transition to
\* FinalizingOpen.
C2_FinalOkAfterAllPtyBytes ==
    \A c \in Clients : sess[c].finalOk > 0 => sess[c].started = PtyRead(sess[c].nread)

\* C3: during one open a session starts at most one final Ok, only with
\* EndOfUserData received (saw_end), and having started it the session is in
\* FinalizingOpen, where the only frame it still sends is that Ok: no further
\* SshData.
C3_OneFinalOkAfterEnd ==
    \A c \in Clients :
        /\ sess[c].finalOk <= 1
        /\ sess[c].finalOk = 1 =>
              /\ sess[c].saw_end
              /\ sess[c].st = "FinalizingOpen"
              /\ sess[c].tx = Pending(Ok)
        /\ sess[c].st = "FinalizingOpen" => sess[c].finalOk = 1

\* A session that read PTY output and received EndOfUserData has started
\* its final Ok.
C3_Witness ==
    \E c \in Clients :
        /\ sess[c].st = "FinalizingOpen"
        /\ sess[c].finalOk = 1
        /\ sess[c].saw_end
        /\ sess[c].nread > 0

\* A supervisor task that is live: it holds its child and awaits an event.
Live(i) == mon[i].st = "AwaitingChildEvent"

\* C4: as long as no supervisor has ended on a child.poll() error, the
\* registry holds an entry for host H if and only if a live supervisor holds
\* the child spawned for H (the registry is a map: at most one entry per
\* host), whatever Opens the sessions have sent.
C4_RegistryMatchesLiveSupervisors ==
    (daemonUp /\ \A i \in Sups : mon[i].st # "ChildError") =>
        \A h \in Hosts : children[h] # 0 <=> \E i \in Sups : Live(i) /\ mon[i].key = h

\* C5: once a host has a registry entry, the entry stays while the child it
\* stands for runs: no step of a running daemon removes it, whatever the
\* sessions do.
C5_EntryKeptWhileChildRuns ==
    [][\A h \in Hosts :
          (daemonUp' /\ children[h] # 0 /\ mon[children[h]].child = "running")
              => children'[h] # 0]_vars

\* C6: a session that takes Open{host: H} off its socket while the registry
\* holds an entry for H replies TunnelAlreadyOpen, spawns no supervisor and
\* leaves the registry as it is.
C6_AlreadyOpenShortCircuit ==
    [][\A c \in Clients :
          (/\ sess[c].st = "AwaitingCommand"
           /\ Received(c, {"Open"})
           /\ children[Head(c2d[c]).host] # 0)
              => /\ sess'[c].tx = Pending(TunnelAlreadyOpen)
                 /\ mon' = mon
                 /\ children' = children]_vars

\* C7: the bytes written to the PTY master during an open are the bytes of
\* the UserData frames received during it, in order, none dropped.
C7_UserDataReachesPty ==
    \A c \in Clients : sess[c].ptyIn = sess[c].udata

\* C10: a session in CommunicatingForOpen that takes an Open, Goodbye or
\* Exit frame off its socket fails with the unexpected-message error, starts
\* no final Ok and writes nothing; the daemon keeps running, every other
\* session is as it was, and so are the registry and the supervisors.
C10_FatalFrameIsSessionLocal ==
    [][\A c \in Clients :
          (sess[c].st = "CommunicatingForOpen" /\ Received(c, {"Open", "Goodbye", "Exit"}))
              => /\ sess'[c].st = "Failed"
                 /\ sess'[c].err = "unexpected message from the client"
                 /\ sess'[c].finalOk = 0
                 /\ d2c' = d2c
                 /\ daemonUp'
                 /\ \A x \in Clients \ {c} : sess'[x] = sess[x]
                 /\ children' = children
                 /\ mon' = mon]_vars

\* One session has failed on an unexpected frame while the other is still
\* proxying its own tunnel, and both tunnels are registered.
C10_Witness ==
    /\ daemonUp
    /\ sess[RawPeer].st = "Failed"
    /\ sess[RawPeer].err = "unexpected message from the client"
    /\ \E c \in Clients \ {RawPeer} : sess[c].st = "CommunicatingForOpen"
    /\ \A h \in Hosts : children[h] # 0

\* A death notification of supervisor i has been handed to the death
\* channel: its send has been started, or the item sits in the channel.
DeathNotified(i) == mon[i].sent # <<>> \/ mon[i].die # <<>>

\* C11: whenever a supervisor's death notification has been handed to the
\* death channel, on the child-exit path as on the kill path, the registry
\* no longer holds that supervisor's tunnel under its host.
C11_EntryGoneBeforeDeathNotice ==
    \A i \in Sups : DeathNotified(i) => children[mon[i].key] # i

\* Both paths have run: one supervisor has queued None (its child was
\* killed), another Some(status) (its child exited), and neither host key
\* is registered any more.
C11_Witness ==
    \E i, j \in Sups :
        /\ mon[i].die = <<"None">> /\ mon[i].child = "killed"
        /\ mon[j].die = <<"Some">> /\ mon[j].child = "exited"
        /\ children[mon[i].key] = 0
        /\ children[mon[j].key] = 0

\* This step spawns no supervisor.
NoSpawn == \A i \in Sups : mon'[i].st = "Unborn" <=> mon[i].st = "Unborn"

\* C12: a session that takes an Open off its socket and spawns no child
\* (setup failed) goes to Aborting with Error(text) as its pending send,
\* text being the rendered setup failure, and writes nothing else; an
\* aborting session with no further message writes only its pending frame
\* and then fails. A client in FirstAck whose next frame is Error(text) and
\* whose poll changes its state fails, carrying that text unless the socket
\* read itself failed: it never enters Communicating.
C12_SetupFailureIsReported ==
    [][\A c \in Clients :
          /\ (sess[c].st = "AwaitingCommand" /\ Received(c, {"Open"}) /\ NoSpawn)
                => /\ sess'[c].st = "Aborting"
                   /\ \E k \in DOMAIN SetupTexts : sess'[c].tx = Pending(Error(SetupTexts[k]))
                   /\ sess'[c].message = <<>>
                   /\ d2c' = d2c
          /\ (sess[c].st = "Aborting" /\ sess[c].message = <<>> /\ sess'[c] # sess[c])
                => /\ sess'[c].st \in {"Failed", "Dropped"}
                   /\ d2c'[c] \in {d2c[c], d2c[c] \o sess[c].tx, <<>>}
          /\ (cli[c].st = "FirstAck" /\ d2c[c] # <<>> /\ Head(d2c[c]).t = "Error"
              /\ cli'[c] # cli[c])
                => /\ cli'[c].st = "Failed"
                   /\ cli'[c].err \in {Head(d2c[c]).text, "io"}]_vars

\* The PTY could not be created: the client has failed with the daemon's
\* text and the session has ended after notifying it; no child was spawned.
C12_Witness ==
    /\ cli[Workflow].st = "Failed"
    /\ cli[Workflow].err = SetupTexts.pty_fail
    /\ sess[Workflow].st = "Failed"
    /\ sess[Workflow].err = "ending connection now that client has been notified"
    /\ \A i \in Sups : mon[i].st = "Unborn"

\* C13: when the first bytes the user types are '.' newline, the client
\* sends no UserData frame for the open: none is in flight to the daemon and
\* the daemon's session has received none.
C13_EndBeforeAnyUserData ==
    \A c \in Clients :
        /\ \A k \in 1..Len(c2d[c]) : c2d[c][k].t # "UserData"
        /\ sess[c].udata = <<>>

\* The daemon has stopped with nothing left of it: no session is live.
AllDropped == \A c \in Clients : sess[c].st \in {"NotAccepted", "Dropped"}

\* C14, as stated: every fatal signal delivered to the daemon is forwarded
\* to the exit channel by its signal task, and the main task then returns,
\* dropping every session and accepting no connection afterwards.
C14_EverySignalFiresExit ==
    /\ \A g \in Signals : (sigTask[g] = "Delivered") ~> (~daemonUp)
    /\ [](~daemonUp => \E g \in Signals : sigTask[g] = "Done")
    /\ [](~daemonUp => AllDropped)
    /\ [][~daemonUp => sess' = sess]_vars

\* C14, amended: every fatal signal delivered to the daemon eventually
\* stops it; it stops only after a signal task has put an item into the
\* exit channel, or because SIGKILL, which no process can handle, was
\* delivered; once stopped every accepted session is dropped and no
\* connection is accepted any more.
C14_SignalStopsDaemon ==
    /\ \A g \in Signals : (sigTask[g] = "Delivered") ~> (~daemonUp)
    /\ [](~daemonUp => \/ \E g \in Signals : sigTask[g] = "Done"
                       \/ sigTask["SIGKILL"] = "Delivered")
    /\ [](~daemonUp => AllDropped)
    /\ [][~daemonUp => sess' = sess]_vars

\* SIGTERM arrived while two sessions were proxying their tunnels; it went
\* through the exit channel, serve returned and both sessions are dropped.
C14_Witness ==
    /\ ~daemonUp
    /\ sigTask["SIGTERM"] = "Done"
    /\ sigTask["SIGKILL"] = "Listening"
    /\ rx_exit = 0
    /\ \A c \in Clients : sess[c].st = "Dropped" /\ rawLeft[c] = 0

\* C15: when a client in FirstAck reads its socket without an I/O error,
\* the first frame it finds decides the outcome: Ok takes it to
\* Communicating with the acceptor in SawFirstEnter and empty buffers,
\* TunnelAlreadyOpen to Finished with result AlreadyOpen, any other frame
\* or the end of the stream to Failed.
C15_FirstFrameDecides ==
    [][\A c \in Clients :
          (/\ cli[c].st = "FirstAck"
           /\ cli'[c] # cli[c]
           /\ cli'[c].err # "io")
              => IF d2c[c] = <<>> THEN cli'[c].st = "Failed"
                 ELSE CASE Head(d2c[c]).t = "Ok" ->
                             /\ cli'[c].st = "Communicating"
                             /\ cli'[c].finished = "SawFirstEnter"
                             /\ cli'[c].ssh_buf = <<>>
                             /\ cli'[c].user_buf = <<>>
                        [] Head(d2c[c]).t = "TunnelAlreadyOpen" ->
                             /\ cli'[c].st = "Finished"
                             /\ cli'[c].result = "AlreadyOpen"
                        [] OTHER -> cli'[c].st = "Failed"]_vars

\* Frame type t is among the frames q.
Has(q, t) == \E k \in 1..Len(q) : q[k].t = t

\* C16: a poll of a client in CleaningUpIo writes at most the one
\* EndOfUserData frame, and only if none was sent before; the client leaves
\* for Finished only with result Success, with EndOfUserData sent and an Ok
\* frame read in this poll; and a poll that reads an Error frame ends the
\* workflow Failed, with that frame's text unless the read itself failed.
C16_OneEndThenOk ==
    [][\A c \in Clients :
          (cli[c].st = "CleaningUpIo" /\ cli'[c] # cli[c])
              => /\ c2d'[c] \in {c2d[c], c2d[c] \o <<EndOfUserData>>}
                 /\ c2d'[c] # c2d[c] =>
                       /\ ~cli[c].sent_finished_message
                       /\ cli'[c].st = "CleaningUpIo" => cli'[c].sent_finished_message
                 /\ cli'[c].st = "Finished" =>
                       /\ cli'[c].result = "Success"
                       /\ cli[c].sent_finished_message \/ c2d'[c] # c2d[c]
                       /\ Has(d2c[c], "Ok")
                       /\ ~Has(d2c[c], "Error")
                 /\ (Has(d2c[c], "Error") /\ d2c'[c] # d2c[c]) =>
                       /\ cli'[c].st = "Failed"
                       /\ \E k \in 1..Len(d2c[c]) :
                             /\ d2c[c][k].t = "Error"
                             /\ cli'[c].err \in {d2c[c][k].text, "io"}]_vars

\* The open has gone through: the client is Finished with Success and the
\* daemon's session, having received EndOfUserData and sent the final Ok,
\* is back in AwaitingCommand.
C16_Witness ==
    /\ cli[Workflow].st = "Finished"
    /\ cli[Workflow].result = "Success"
    /\ sess[Workflow].st = "AwaitingCommand"
    /\ c2d[Workflow] = <<>>
    /\ children["h1"] # 0

\* C17: a supervisor in AwaitingChildEvent whose kill sender has been
\* dropped, with its child running, does not signal the child and does not
\* go on to the death notice: while the daemon runs, its steps leave the
\* child unkilled and the registry as it is.
C17_DroppedKillSenderIsNoKill ==
    [][\A i \in Sups :
          (/\ daemonUp'
           /\ mon[i].st = "AwaitingChildEvent"
           /\ mon[i].tx_kill = "dropped"
           /\ mon[i].child = "running"
           /\ mon'[i] # mon[i])
              => /\ mon'[i].child # "killed"
                 /\ mon'[i].st # "NotifyingChildDied"
                 /\ children' = children]_vars

\* C18: once the peer has closed its connection and the session has read
\* everything the peer sent, the session eventually terminates.
C18_SessionEndsAfterPeerClose ==
    \A c \in Clients : (c2dEof[c] /\ c2d[c] = <<>>) ~> SessionOver(sess[c].st)

\* C19: a supervisor that has terminated with an error has left no registry
\* entry behind: the entry under its key does not name it.
C19_ErrorLeavesNoEntry ==
    \A i \in Sups : mon[i].st = "ChildError" => children[mon[i].key] # i

\* C20: when the daemon's side of the connection has reached end-of-stream
\* while the workflow is in Communicating or CleaningUpIo and no final Ok
\* has arrived, the workflow eventually reaches Failed.
C20_PrematureCloseFails ==
    \A c \in Clients :
        (/\ cli[c].st \in {"Communicating", "CleaningUpIo"}
         /\ D2cEof(c)
         /\ ~cli[c].saw_ok
         /\ ~Has(d2c[c], "Ok"))
            ~> cli[c].st = "Failed"

\* C21: saw_end stays set for as long as the session stays in
\* CommunicatingForOpen, and a UserData frame read while it is set ends the
\* session with the "changed its mind" error: nothing reaches the client,
\* nothing is written to the PTY and no final Ok is started.
C21_UserDataAfterEndIsFatal ==
    [][\A c \in Clients :
          (sess[c].st = "CommunicatingForOpen" /\ sess[c].saw_end)
              => /\ sess'[c].st = "CommunicatingForOpen" => sess'[c].saw_end
                 /\ (/\ c2d[c] # <<>>
                     /\ Head(c2d[c]).t = "UserData"
                     /\ c2d'[c] = Tail(c2d[c]))
                        => /\ sess'[c] = Failed("client changed its mind about being finished")
                           /\ d2c'[c] = d2c[c]]_vars

C21_Witness ==
    \E c \in Clients :
        /\ sess[c].st = "Failed"
        /\ sess[c].err = "client changed its mind about being finished"

\* The texts a session aborts with.
AbortTexts ==
    {SetupTexts[k] : k \in DOMAIN SetupTexts}
        \cup {"something went wrong communicating with the SSH process"}

\* C22: a session enters Aborting with Error(msg) as its pending send when
\* its sink was idle, and otherwise with the prior send kept and msg held
\* back. While aborting it starts no frame but that one Error, starts it only
\* once the prior frame has been written, and ends with the synthetic error
\* only in a poll that writes the Error frame; the only other way out is a
\* failure of the send itself.
C22_AbortSendsOneError ==
    [][\A c \in Clients :
          /\ (sess[c].st \in {"AwaitingCommand", "CommunicatingForOpen"} /\ sess'[c].st = "Aborting")
                => \E text \in AbortTexts :
                      IF sess[c].tx = Idle
                      THEN sess'[c].tx = Pending(Error(text)) /\ sess'[c].message = <<>>
                      ELSE sess'[c].tx = sess[c].tx /\ sess'[c].message = <<text>>
          /\ (sess[c].st = "Aborting" /\ sess'[c] # sess[c] /\ daemonUp')
                => \/ sess'[c] = Failed("io") /\ d2c'[c] \in {d2c[c], <<>>}
                   \/ /\ sess[c].message # <<>>
                      /\ sess[c].tx # Idle /\ sess[c].tx[1].t # "Error"
                      /\ sess'[c].st = "Aborting"
                      /\ sess'[c].tx = Pending(Error(sess[c].message[1]))
                      /\ sess'[c].message = <<>>
                      /\ d2c'[c] = IF Reads(c) THEN d2c[c] \o sess[c].tx ELSE <<>>
                   \/ /\ sess[c].message = <<>>
                      /\ sess[c].tx # Idle /\ sess[c].tx[1].t = "Error"
                      /\ sess'[c] = Failed("ending connection now that client has been notified")
                      /\ d2c'[c] = IF Reads(c) THEN d2c[c] \o sess[c].tx ELSE <<>>]_vars

\* The sink was draining a frame when the session aborted: the message is
\* held back behind it.
C22_Witness ==
    \E c \in Clients :
        /\ sess[c].st = "Aborting"
        /\ sess[c].message # <<>>
        /\ sess[c].tx # Idle

Continuation(st) == IF st = "SawFirstEnter" THEN DOT ELSE NL

\* C24: fed one byte, the acceptor stays in SawSecondEnter once there; from
\* NoLeads, SawFirstEnter and SawPeriod a byte other than the expected
\* continuation leads to SawFirstEnter when it is a newline and to NoLeads
\* otherwise.
C24_SingleStepRule ==
    [][accFed' = accFed + 1 =>
          LET byte == accB[accFed + 1] IN
          /\ accSt = "SawSecondEnter" => accSt' = "SawSecondEnter"
          /\ (accSt # "SawSecondEnter" /\ byte # Continuation(accSt))
                => accSt' = IF byte = NL THEN "SawFirstEnter" ELSE "NoLeads"]_vars

\* The stream holds the three consecutive bytes newline, '.', newline.
HasFullTerminator(b) ==
    \E i \in 1..(Len(b) - 2) : b[i] = NL /\ b[i + 1] = DOT /\ b[i + 2] = NL

\* C25: started in NoLeads or in SawFirstEnter, the acceptor is in
\* SawSecondEnter once the bytes fed so far hold newline '.' newline,
\* whatever precedes that occurrence.
C25_RecognizesTerminator ==
    HasFullTerminator(Fed) => accSt = "SawSecondEnter"

\* The death notification supervisor i has produced, started or delivered.
Notice(i) == mon[i].sent \o mon[i].die

\* C26: a supervisor leaves AwaitingChildEvent at most once, for an error
\* or for one event: an exited child gives the payload Some(status), also
\* when the kill channel is ready in the same poll; otherwise a ready kill
\* channel gets the child killed and gives the payload None. The kill
\* receiver is closed by that step, the supervisor never comes back to
\* AwaitingChildEvent, and a notification once produced is never followed
\* by a different one.
C26_OneEventOneNotice ==
    [][\A i \in Sups :
          /\ (mon[i].st = "AwaitingChildEvent" /\ mon'[i].st # "AwaitingChildEvent" /\ daemonUp')
                => \/ mon'[i].st = "ChildError" /\ Notice(i)' = <<>>
                   \/ /\ mon'[i].st = "NotifyingChildDied"
                      /\ mon'[i].tx_kill = "none"
                      /\ IF mon[i].child = "exited"
                         THEN mon'[i].sent = <<"Some">> /\ mon'[i].child = "exited"
                         ELSE /\ mon[i].tx_kill = "dropped"
                              /\ mon'[i].sent = <<"None">> /\ mon'[i].child = "killed"
          /\ mon[i].st \notin {"Unborn", "AwaitingChildEvent"}
                => mon'[i].st \notin {"Unborn", "AwaitingChildEvent"}
          /\ Notice(i) # <<>> => Notice(i)' \in {Notice(i), <<>>}
          /\ Len(Notice(i)') <= 1]_vars

\* The kill path has run to its end: the child was killed, the one None
\* notification was delivered, and the supervisor is done.
C26_Witness ==
    \E i \in Sups :
        /\ mon[i].st = "ChildReaped"
        /\ mon[i].child = "killed"
        /\ mon[i].die = <<"None">>
        /\ mon[i].tx_kill = "none"

\* C27: a session that takes an Open off its socket and aborts (PTY
\* allocation or SSH spawn failed) leaves the registry and every supervisor
\* as they were: no entry is inserted, replaced or removed, no supervisor
\* is spawned and no tunnel's kill sender is dropped.
C27_FailedSetupKeepsRegistry ==
    [][\A c \in Clients :
          (sess[c].st = "AwaitingCommand" /\ Received(c, {"Open"}) /\ sess'[c].st = "Aborting")
              => children' = children /\ mon' = mon]_vars

\* An Open for a host that has a tunnel has failed in setup: the session is
\* aborting with the setup error and the host's entry and its supervisor
\* are still there.
C27_Witness ==
    \E c \in Clients, k \in DOMAIN SetupTexts, h \in Hosts :
        /\ sess[c].st = "Aborting"
        /\ sess[c].tx = Pending(Error(SetupTexts[k]))
        /\ children[h] # 0
        /\ mon[children[h]].st = "AwaitingChildEvent"
        /\ mon[children[h]].tx_kill = "held"
        /\ \E i \in Sups : mon[i].st = "Unborn"

\* C28: a start whose probe connects is refused and goes no further, no
\* step takes the socket path away from a daemon that is listening on it,
\* and no two daemons are listening at once.
C28_OneDaemonPerSocket ==
    [][/\ \A d \in Daemons :
            /\ (start[d] = "Probe" /\ Connects /\ start'[d] # "Probe")
                  => start'[d] = "Refused" /\ sock_path' = sock_path
            /\ start[d] = "Refused" => start'[d] = "Refused"
            /\ (start[d] = "Listening" /\ sock_path = d /\ start'[d] = "Listening")
                  => sock_path' = d
       /\ \A d, e \in Daemons :
            (start'[d] = "Listening" /\ start'[e] = "Listening") => d = e]_vars

\* This step, client c leaves Communicating for CleaningUpIo.
LeavesCommunicating(c) == cli[c].st = "Communicating" /\ cli'[c].st = "CleaningUpIo"

\* C29: when the client leaves Communicating for CleaningUpIo, every byte
\* it has read from the user and not yet sent (those buffered before this
\* poll and those read in it) goes out in a UserData frame in that poll, so
\* nothing is left in the SSH-outbound buffer.
C29_NoUserByteLost ==
    [][\A c \in Clients :
          LeavesCommunicating(c)
              => \E k \in 0..Len(userLeft[c]) :
                    /\ userLeft'[c] = Drop(userLeft[c], k)
                    /\ LET pending == cli[c].ssh_buf \o Flat(Take(userLeft[c], k))
                       IN c2d'[c] = IF pending = <<>> THEN c2d[c]
                                    ELSE c2d[c] \o << UserData(pending) >>]_vars

\* C30: when the client leaves Communicating for CleaningUpIo, every
\* SshData byte it has received and not yet handed on (those buffered before
\* this poll and those read in it) is accepted by the user-output sink in
\* that poll, so nothing is left in the user-output buffer.
C30_NoSshByteLost ==
    [][\A c \in Clients :
          LeavesCommunicating(c)
              => userOut'[c] = userOut[c] \o CommDrain(cli[c], d2c[c], D2cEof(c)).user_buf]_vars

\* The payload bytes of the frames q, in order.
RECURSIVE Payload(_)
Payload(q) == IF q = <<>> THEN <<>> ELSE Head(q).data \o Payload(Tail(q))

\* C31: a client in FirstAck whose socket holds Ok followed by any number
\* of SshData frames, and is still open, enters Communicating when it reads
\* without an I/O error, and the bytes of those SshData frames are in its
\* user-output buffer or still to be read, whether the poll finds them
\* readable or not.
C31_FirstAckBatching ==
    [][\A c \in Clients :
          (/\ cli[c].st = "FirstAck"
           /\ cli'[c] # cli[c]
           /\ cli'[c].err # "io"
           /\ ~D2cEof(c)
           /\ d2c[c] # <<>>
           /\ Head(d2c[c]).t = "Ok"
           /\ \A k \in 2..Len(d2c[c]) : d2c[c][k].t = "SshData")
              => /\ cli'[c].st = "Communicating"
                 /\ cli'[c].user_buf \o Payload(d2c'[c]) = Payload(Tail(d2c[c]))]_vars

\* C32: a supervisor in NotifyingChildDied eventually reaches ChildReaped
\* or ChildError (or ends with the daemon), whether or not a session still
\* holds the death receiver.
C32_SupervisorTerminates ==
    \A i \in Sups :
        mon[i].st = "NotifyingChildDied"
            ~> mon[i].st \in {"ChildReaped", "ChildError", "Dropped"}

\* C33: in CommunicatingForOpen the bytes of the SshData sends started so
\* far, followed by the send buffer, are the chunks read from the PTY so
\* far, in order; and a poll that leaves a new send pending found the sink
\* idle, and the send is an SshData frame with a non-empty payload that is
\* appended to the bytes started.
C33_SshDataCarriesPtyOutput ==
    [][\A c \in Clients :
          /\ sess'[c].st = "CommunicatingForOpen"
                => sess'[c].started \o sess'[c].buf = PtyRead(sess'[c].nread)
          /\ (/\ sess[c].st = "CommunicatingForOpen"
              /\ sess'[c].st = "CommunicatingForOpen"
              /\ sess'[c].tx # Idle
              /\ sess'[c].tx # sess[c].tx)
                => /\ sess[c].tx = Idle
                   /\ sess'[c].tx[1].t = "SshData"
                   /\ sess'[c].tx[1].data # <<>>
                   /\ sess'[c].started = sess[c].started \o sess'[c].tx[1].data]_vars

\* Two chunks have been read from the PTY: the first went out in an
\* SshData frame, the second waits in the buffer.
C33_Witness ==
    \E c \in Clients :
        /\ sess[c].st = "CommunicatingForOpen"
        /\ sess[c].nread = 2
        /\ sess[c].started # <<>>
        /\ sess[c].buf # <<>>

====
